---------------------------- MODULE Spec2Model ----------------------------
(***************************************************************************)
(* Bit-granular stream adapters of deku: the reader `Container`            *)
(* (src/src/container.rs) and the `Writer` (src/src/writer.rs).            *)
(*                                                                         *)
(* A bit-vector (BitVec<u8, Msb0>) is a sequence over {0, 1}; a byte is an *)
(* integer in 0..255; a byte buffer is a sequence of bytes.                *)
(***************************************************************************)
EXTENDS Integers, Sequences, FiniteSets, TLC

(***************************************************************************)
(* Bounds of the model.                                                    *)
(***************************************************************************)
\* longest input handed to Container::new, in bytes
MaxInputLen == 3
\* largest amt passed to read_bits
MaxAmt == 10
\* largest amt passed to skip_bits
MaxSkip == 4
\* largest amt passed to read_bytes
MaxBytes == 2
\* most Writer calls in one run
MaxCalls == 4
\* longest input behind a source that can fail with an I/O error, in bytes
MaxFaultyInputLen == 2

\* Max bits requested from read_bits during one call
MAX_BITS_AMT == 128

\* byte values the inputs are built from: 0xAA = 10101010, 0x1B = 00011011
ByteVals == {170, 27}

Bit == {0, 1}

\* all sequences over S of length lo..hi
SeqsOf(S, lo, hi) == UNION {[1..n -> S] : n \in lo..hi}

(***************************************************************************)
(* bitvec, Msb0 order over u8 storage.                                     *)
(***************************************************************************)
\* bit i (0 = first in the stream) of byte b: the 0x80 bit comes first
BitOfByte(b, i) == (b \div (2 ^ (7 - i))) % 2

\* BitVec::<u8, Msb0>::from_slice / BitSlice::try_from_slice
FromSlice(bytes) ==
    [i \in 1..(8 * Len(bytes)) |-> BitOfByte(bytes[((i - 1) \div 8) + 1], (i - 1) % 8)]

\* BitField::load_be of a chunk of bits: the first bit is the most significant
RECURSIVE LoadBe(_)
LoadBe(bits) ==
    IF bits = <<>> THEN 0
    ELSE 2 * LoadBe(SubSeq(bits, 1, Len(bits) - 1)) + bits[Len(bits)]

\* mutant of PackChunks: each chunk loaded with load_le (first bit least significant)
PackChunksLe(bits, n) ==
    [k \in 1..n |->
        IF 8 * k <= Len(bits)
          THEN LoadBe([i \in 1..8 |-> bits[8 * k + 1 - i]])
          ELSE 0]

\* bits.chunks_exact(8).zip(buf.iter_mut()).for_each(|(byte, slot)| *slot = byte.load_be())
\* over a zeroed buf of n slots
PackChunks(bits, n) ==
    [k \in 1..n |->
        IF 8 * k <= Len(bits) THEN LoadBe(SubSeq(bits, 8 * k - 7, 8 * k)) ELSE 0]

\* bitvec![u8, Msb0; 0; n]
Zeros(n) == [i \in 1..n |-> 0]

\* s[from..] with a 0-based start
Tail0(s, from) == SubSeq(s, from + 1, Len(s))

(***************************************************************************)
(* The byte source (acid_io::Read::read_exact).  The outcomes of asking    *)
(* for k bytes: success hands over the next k bytes; end-of-stream leaves  *)
(* the buffer as the caller zeroed it and has consumed either nothing or   *)
(* all that was left (both are behaviours of read_exact implementations);  *)
(* a faulty source may also fail with another I/O error after j < k bytes. *)
(***************************************************************************)
ReadExact(src, k, faulty) ==
    (IF k <= Len(src)
       THEN {[kind |-> "ok", buf |-> SubSeq(src, 1, k), rest |-> Tail0(src, k)]}
       ELSE {[kind |-> "eof", buf |-> Zeros(k), rest |-> Tail0(src, j)]
                : j \in {0, Len(src)}})
    \cup
    (IF faulty /\ k > 0
       THEN {[kind |-> "ioerr",
              buf |-> [i \in 1..k |-> IF i <= j THEN src[i] ELSE 0],
              rest |-> Tail0(src, j)]
                : j \in {j \in 0..(k - 1) : j <= Len(src)}}
       ELSE {})

(***************************************************************************)
(* Container (reader).  A reader state is a record of the struct's fields; *)
(* each operation yields the set of its possible outcomes: the fields      *)
(* after the call, the value returned (ret), and the bits the call took    *)
(* out of the stream for its caller (taken).                               *)
(***************************************************************************)
Ret(kind, val, buf, need) == [kind |-> kind, val |-> val, buf |-> buf, need |-> need]

\* src is how the call's read_exact ended ("none": the source was not asked)
Outcome(inner, leftover, bits_read, ret, taken) ==
    [inner |-> inner, leftover |-> leftover, bits_read |-> bits_read,
     ret |-> ret, taken |-> taken, src |-> "none"]

\* the outcome of a call whose read_exact ended as rx
SrcOutcome(rx, leftover, bits_read, ret, taken) ==
    [Outcome(rx.rest, leftover, bits_read, ret, taken) EXCEPT !.src = rx.kind]

\* mutant of end: an exhausted source means the end, whatever is buffered
end_ignores_leftover(st, faulty) ==
    IF st.leftover # <<>> /\ st.inner # <<>>
      THEN {Outcome(st.inner, st.leftover, st.bits_read, Ret("false", <<>>, <<>>, 0), <<>>)}
      ELSE {IF rx.kind = "eof"
              THEN SrcOutcome(rx, st.leftover, st.bits_read,
                           Ret("true", <<>>, <<>>, 0), <<>>)
              ELSE SrcOutcome(rx, FromSlice(rx.buf), st.bits_read,
                           Ret("false", <<>>, <<>>, 0), <<>>)
             : rx \in ReadExact(st.inner, 1, faulty)}

\* mutant of end: the look-ahead byte is counted as read
end_counts_lookahead(st, faulty) ==
    IF st.leftover # <<>>
      THEN {Outcome(st.inner, st.leftover, st.bits_read, Ret("false", <<>>, <<>>, 0), <<>>)}
      ELSE {IF rx.kind = "eof"
              THEN SrcOutcome(rx, st.leftover, st.bits_read,
                           Ret("true", <<>>, <<>>, 0), <<>>)
              ELSE SrcOutcome(rx, FromSlice(rx.buf), st.bits_read + 8,
                           Ret("false", <<>>, <<>>, 0), <<>>)
             : rx \in ReadExact(st.inner, 1, faulty)}

\* mutant of end: the look-ahead byte is consumed and not buffered
end_drops_lookahead(st, faulty) ==
    IF st.leftover # <<>>
      THEN {Outcome(st.inner, st.leftover, st.bits_read, Ret("false", <<>>, <<>>, 0), <<>>)}
      ELSE {IF rx.kind = "eof"
              THEN SrcOutcome(rx, st.leftover, st.bits_read,
                           Ret("true", <<>>, <<>>, 0), <<>>)
              ELSE SrcOutcome(rx, st.leftover, st.bits_read,
                           Ret("false", <<>>, <<>>, 0), <<>>)
             : rx \in ReadExact(st.inner, 1, faulty)}

\* Container::end
end(st, faulty) ==
    IF st.leftover # <<>>
      THEN {Outcome(st.inner, st.leftover, st.bits_read, Ret("false", <<>>, <<>>, 0), <<>>)}
      ELSE {IF rx.kind = "eof"
              THEN SrcOutcome(rx, st.leftover, st.bits_read,
                           Ret("true", <<>>, <<>>, 0), <<>>)
              ELSE SrcOutcome(rx, FromSlice(rx.buf), st.bits_read,
                           Ret("false", <<>>, <<>>, 0), <<>>)
             : rx \in ReadExact(st.inner, 1, faulty)}

\* mutant of read_bits_greater: Incomplete carries the size of the failed
\* read_exact in bits instead of amt
read_bits_greater_need_read(st, amt, faulty) ==
    LET bits_left == amt - Len(st.leftover)
        bytes_len == (bits_left \div 8) + (IF bits_left % 8 # 0 THEN 1 ELSE 0)
    IN {IF rx.kind = "eof"
          THEN SrcOutcome(rx, st.leftover, st.bits_read,
                       Ret("Incomplete", <<>>, <<>>, bytes_len * 8), <<>>)
          ELSE LET bits       == FromSlice(rx.buf)
                   rest       == SubSeq(bits, 1, bits_left)
                   not_needed == Tail0(bits, bits_left)
                   ret        == st.leftover \o rest
               IN SrcOutcome(rx, not_needed, st.bits_read + Len(ret),
                          Ret("Some", ret, <<>>, 0), ret)
         : rx \in ReadExact(st.inner, bytes_len, faulty)}

\* mutant of read_bits_greater: Incomplete carries the shortfall (the bits
\* the buffered ones do not cover) instead of amt
read_bits_greater_need_shortfall(st, amt, faulty) ==
    LET bits_left == amt - Len(st.leftover)
        bytes_len == (bits_left \div 8) + (IF bits_left % 8 # 0 THEN 1 ELSE 0)
    IN {IF rx.kind = "eof"
          THEN SrcOutcome(rx, st.leftover, st.bits_read,
                       Ret("Incomplete", <<>>, <<>>, bits_left), <<>>)
          ELSE LET bits       == FromSlice(rx.buf)
                   rest       == SubSeq(bits, 1, bits_left)
                   not_needed == Tail0(bits, bits_left)
                   ret        == st.leftover \o rest
               IN SrcOutcome(rx, not_needed, st.bits_read + Len(ret),
                          Ret("Some", ret, <<>>, 0), ret)
         : rx \in ReadExact(st.inner, bytes_len, faulty)}

\* mutant of read_bits_greater: every bit of the bytes read stays buffered,
\* the ones just returned included
read_bits_greater_keeps_all(st, amt, faulty) ==
    LET bits_left == amt - Len(st.leftover)
        bytes_len == (bits_left \div 8) + (IF bits_left % 8 # 0 THEN 1 ELSE 0)
    IN {IF rx.kind = "eof"
          THEN SrcOutcome(rx, st.leftover, st.bits_read,
                       Ret("Incomplete", <<>>, <<>>, amt), <<>>)
          ELSE LET bits       == FromSlice(rx.buf)
                   rest       == SubSeq(bits, 1, bits_left)
                   ret        == st.leftover \o rest
               IN SrcOutcome(rx, bits, st.bits_read + Len(ret),
                          Ret("Some", ret, <<>>, 0), ret)
         : rx \in ReadExact(st.inner, bytes_len, faulty)}

\* the Ordering::Greater arm of read_bits: leftover is a prefix of the result
read_bits_greater(st, amt, faulty) ==
    LET bits_left == amt - Len(st.leftover)
        bytes_len == (bits_left \div 8) + (IF bits_left % 8 # 0 THEN 1 ELSE 0)
    IN {IF rx.kind = "eof"
          THEN SrcOutcome(rx, st.leftover, st.bits_read,
                       Ret("Incomplete", <<>>, <<>>, amt), <<>>)
          ELSE LET bits       == FromSlice(rx.buf)
                   rest       == SubSeq(bits, 1, bits_left)
                   not_needed == Tail0(bits, bits_left)
                   ret        == st.leftover \o rest
               IN SrcOutcome(rx, not_needed, st.bits_read + Len(ret),
                          Ret("Some", ret, <<>>, 0), ret)
         : rx \in ReadExact(st.inner, bytes_len, faulty)}

\* mutant of read_bits: the Ordering::Less arm returns what split_off gave
\* and keeps the first amt bits buffered
read_bits_less_swapped(st, amt, faulty) ==
    IF amt = 0
      THEN {Outcome(st.inner, st.leftover, st.bits_read, Ret("None", <<>>, <<>>, 0), <<>>)}
    ELSE IF amt = Len(st.leftover)
      THEN {Outcome(st.inner, <<>>, st.bits_read + Len(st.leftover),
                    Ret("Some", st.leftover, <<>>, 0), st.leftover)}
    ELSE IF amt > Len(st.leftover)
      THEN read_bits_greater(st, amt, faulty)
    ELSE LET used == Tail0(st.leftover, amt)
             ret  == SubSeq(st.leftover, 1, amt)
         IN {Outcome(st.inner, ret, st.bits_read + Len(used),
                     Ret("Some", used, <<>>, 0), used)}

\* mutant of read_bits: without the early return for amt = 0
read_bits_without_zero_return(st, amt, faulty) ==
    IF amt = Len(st.leftover)
      THEN {Outcome(st.inner, <<>>, st.bits_read + Len(st.leftover),
                    Ret("Some", st.leftover, <<>>, 0), st.leftover)}
    ELSE IF amt > Len(st.leftover)
      THEN read_bits_greater(st, amt, faulty)
    ELSE LET used == Tail0(st.leftover, amt)
             ret  == SubSeq(st.leftover, 1, amt)
         IN {Outcome(st.inner, used, st.bits_read + Len(ret),
                     Ret("Some", ret, <<>>, 0), ret)}

\* Container::read_bits
read_bits(st, amt, faulty) ==
    IF amt = 0
      THEN {Outcome(st.inner, st.leftover, st.bits_read, Ret("None", <<>>, <<>>, 0), <<>>)}
    ELSE IF amt = Len(st.leftover)
      THEN {Outcome(st.inner, <<>>, st.bits_read + Len(st.leftover),
                    Ret("Some", st.leftover, <<>>, 0), st.leftover)}
    ELSE IF amt > Len(st.leftover)
      THEN read_bits_greater(st, amt, faulty)
    ELSE LET used == Tail0(st.leftover, amt)
             ret  == SubSeq(st.leftover, 1, amt)
         IN {Outcome(st.inner, used, st.bits_read + Len(ret),
                     Ret("Some", ret, <<>>, 0), ret)}

\* mutant of skip_bits: bits_read is left as read_bits counted it
skip_bits_keeps_count(st, amt, faulty) ==
    {IF o.ret.kind = "Incomplete"
       THEN o
       ELSE [o EXCEPT !.ret = Ret("Unit", <<>>, <<>>, 0)]
      : o \in read_bits(st, amt, faulty)}

\* Container::skip_bits
skip_bits(st, amt, faulty) ==
    {IF o.ret.kind = "Incomplete"
       THEN o
       ELSE [o EXCEPT !.bits_read = 0, !.ret = Ret("Unit", <<>>, <<>>, 0)]
      : o \in read_bits(st, amt, faulty)}

\* mutant of read_bytes: the byte-aligned path counts bytes, not bits
read_bytes_counts_bytes(st, amt, buflen, faulty) ==
    IF st.leftover = <<>>
      THEN IF buflen < amt
             THEN {Outcome(st.inner, st.leftover, st.bits_read,
                           Ret("Incomplete", <<>>, <<>>, amt * 8), <<>>)}
             ELSE {IF rx.kind = "eof"
                     THEN SrcOutcome(rx, st.leftover, st.bits_read,
                                  Ret("Incomplete", <<>>, <<>>, amt * 8), <<>>)
                     ELSE SrcOutcome(rx, st.leftover, st.bits_read + amt,
                                  Ret("Bytes", <<>>, rx.buf, 0), FromSlice(rx.buf))
                    : rx \in ReadExact(st.inner, amt, faulty)}
      ELSE {IF o.ret.kind = "Incomplete"
              THEN o
              ELSE [o EXCEPT !.ret.kind = IF o.ret.kind = "None" THEN "BitsNone"
                                                                 ELSE "BitsSome"]
             : o \in read_bits(st, amt * 8, faulty)}

\* mutant of read_bytes: a whole buffered byte counts as byte-aligned
read_bytes_whole_byte_aligned(st, amt, buflen, faulty) ==
    IF Len(st.leftover) % 8 = 0
      THEN IF buflen < amt
             THEN {Outcome(st.inner, st.leftover, st.bits_read,
                           Ret("Incomplete", <<>>, <<>>, amt * 8), <<>>)}
             ELSE {IF rx.kind = "eof"
                     THEN SrcOutcome(rx, st.leftover, st.bits_read,
                                  Ret("Incomplete", <<>>, <<>>, amt * 8), <<>>)
                     ELSE SrcOutcome(rx, st.leftover, st.bits_read + amt * 8,
                                  Ret("Bytes", <<>>, rx.buf, 0), FromSlice(rx.buf))
                    : rx \in ReadExact(st.inner, amt, faulty)}
      ELSE {IF o.ret.kind = "Incomplete"
              THEN o
              ELSE [o EXCEPT !.ret.kind = IF o.ret.kind = "None" THEN "BitsNone"
                                                                 ELSE "BitsSome"]
             : o \in read_bits(st, amt * 8, faulty)}

\* Container::read_bytes; buflen is buf.len() of the caller's buffer
read_bytes(st, amt, buflen, faulty) ==
    IF st.leftover = <<>>
      THEN IF buflen < amt
             THEN {Outcome(st.inner, st.leftover, st.bits_read,
                           Ret("Incomplete", <<>>, <<>>, amt * 8), <<>>)}
             ELSE {IF rx.kind = "eof"
                     THEN SrcOutcome(rx, st.leftover, st.bits_read,
                                  Ret("Incomplete", <<>>, <<>>, amt * 8), <<>>)
                     ELSE SrcOutcome(rx, st.leftover, st.bits_read + amt * 8,
                                  Ret("Bytes", <<>>, rx.buf, 0), FromSlice(rx.buf))
                    : rx \in ReadExact(st.inner, amt, faulty)}
      ELSE {IF o.ret.kind = "Incomplete"
              THEN o
              ELSE [o EXCEPT !.ret.kind = IF o.ret.kind = "None" THEN "BitsNone"
                                                                 ELSE "BitsSome"]
             : o \in read_bits(st, amt * 8, faulty)}

(***************************************************************************)
(* The byte sink (no_std_io::io::Write::write_all): the whole buffer is    *)
(* appended, or the call fails having appended only part of it.            *)
(***************************************************************************)
WriteAll(sink, buf) ==
    {[ok |-> TRUE, sink |-> sink \o buf]}
    \cup {[ok |-> FALSE, sink |-> sink \o SubSeq(buf, 1, j)] : j \in 0..(Len(buf) - 1)}

(***************************************************************************)
(* Writer.  A writer state is a record of the struct's fields; each        *)
(* operation yields the set of its possible outcomes.                      *)
(***************************************************************************)
WOutcome(inner, leftover, bits_written, ret) ==
    [inner |-> inner, leftover |-> leftover, bits_written |-> bits_written, ret |-> ret]

\* Writer::rest
rest(st) == st.leftover

\* mutant of write_bits: the flush packs the new bits only, without
\* pre-pending the buffered ones
write_bits_drops_leftover(st, bits) ==
    IF Len(st.leftover) + Len(bits) < 8
      THEN {WOutcome(st.inner, st.leftover \o bits, st.bits_written, "Ok")}
      ELSE LET all   == bits
               buf   == PackChunks(all, Len(all) \div 8)
               count == Len(buf)
               tail  == Tail0(all, count * 8)
           IN {WOutcome(w.sink, tail, Len(buf) * 8, IF w.ok THEN "Ok" ELSE "WriteError")
                 : w \in WriteAll(st.inner, buf)}

\* mutant of write_bits: the bits just flushed stay buffered
write_bits_keeps_flushed(st, bits) ==
    IF Len(st.leftover) + Len(bits) < 8
      THEN {WOutcome(st.inner, st.leftover \o bits, st.bits_written, "Ok")}
      ELSE LET all   == IF st.leftover = <<>> THEN bits ELSE st.leftover \o bits
               buf   == PackChunks(all, Len(all) \div 8)
           IN {WOutcome(w.sink, all, Len(buf) * 8, IF w.ok THEN "Ok" ELSE "WriteError")
                 : w \in WriteAll(st.inner, buf)}

\* Writer::write_bits
write_bits(st, bits) ==
    IF Len(st.leftover) + Len(bits) < 8
      THEN {WOutcome(st.inner, st.leftover \o bits, st.bits_written, "Ok")}
      ELSE LET all   == IF st.leftover = <<>> THEN bits ELSE st.leftover \o bits
               buf   == PackChunks(all, Len(all) \div 8)
               count == Len(buf)
               tail  == Tail0(all, count * 8)
           IN {WOutcome(w.sink, tail, Len(buf) * 8, IF w.ok THEN "Ok" ELSE "WriteError")
                 : w \in WriteAll(st.inner, buf)}

\* mutant of write_bytes: the buffer always goes straight to the sink,
\* whatever is buffered
write_bytes_always_direct(st, buf) ==
    {IF w.ok
       THEN WOutcome(w.sink, st.leftover, Len(buf) * 8, "Ok")
       ELSE WOutcome(w.sink, st.leftover, st.bits_written, "WriteError")
      : w \in WriteAll(st.inner, buf)}

\* Writer::write_bytes
write_bytes(st, buf) ==
    IF st.leftover # <<>>
      THEN write_bits(st, FromSlice(buf))
      ELSE {IF w.ok
              THEN WOutcome(w.sink, st.leftover, Len(buf) * 8, "Ok")
              ELSE WOutcome(w.sink, st.leftover, st.bits_written, "WriteError")
             : w \in WriteAll(st.inner, buf)}

\* Writer::finalize
finalize(st) ==
    IF st.leftover # <<>>
      THEN LET padded == st.leftover \o Zeros(8 - Len(st.leftover))
               buf    == PackChunks(padded, Len(padded) \div 8)
           IN {WOutcome(w.sink, padded, st.bits_written, IF w.ok THEN "Ok" ELSE "WriteError")
                 : w \in WriteAll(st.inner, buf)}
      ELSE {WOutcome(st.inner, st.leftover, st.bits_written, "Ok")}

(***************************************************************************)
(* State.                                                                  *)
(*   input                      the bytes the Container was built over     *)
(*   r_inner, r_leftover, bits_read      the fields of Container           *)
(*   r_faulty                   the source can fail with an I/O error      *)
(*                              other than end-of-stream (a transient      *)
(*                              error: it does so at most once)            *)
(*   r_op, r_amt, r_buflen, r_ret   the last Container call, its arguments *)
(*                              and what it returned                       *)
(*   r_src                      how the last call's read_exact ended:      *)
(*                              "none", "ok", "eof" or "ioerr"             *)
(*   r_prev_end_true            the call before the last one was end()     *)
(*                              and it returned true                       *)
(*   r_out                      every bit handed to (or skipped for) the   *)
(*                              caller so far, in call order               *)
(*   r_ok                       no Container call has failed so far        *)
(*   p_inner, p_leftover, p_bits_read   the fields of a second Container   *)
(*                              over the same input, which is given the    *)
(*                              read_bits calls of the first and no end()  *)
(*   p_ret                      what its last read_bits returned           *)
(*   w_inner, w_leftover, bits_written   the fields of Writer              *)
(*   w_op, w_ret                the last Writer call and its result        *)
(*   w_bits                     every bit supplied to the Writer so far    *)
(*   w_calls, w_nfinal          Writer calls made; finalize calls made     *)
(***************************************************************************)
VARIABLES input, r_inner, r_leftover, bits_read, r_faulty,
          r_op, r_amt, r_buflen, r_ret, r_src, r_prev_end_true, r_out, r_ok,
          p_inner, p_leftover, p_bits_read, p_ret,
          w_inner, w_leftover, bits_written, w_op, w_ret, w_bits, w_calls, w_nfinal

pvars == <<p_inner, p_leftover, p_bits_read, p_ret>>
rvars == <<input, r_inner, r_leftover, bits_read, r_faulty,
           r_op, r_amt, r_buflen, r_ret, r_src, r_prev_end_true, r_out, r_ok, pvars>>
wvars == <<w_inner, w_leftover, bits_written, w_op, w_ret, w_bits, w_calls, w_nfinal>>
vars  == <<rvars, wvars>>

\* the Container and the Writer as records of their fields
RS == [inner |-> r_inner, leftover |-> r_leftover, bits_read |-> bits_read]
WS == [inner |-> w_inner, leftover |-> w_leftover, bits_written |-> bits_written]
PS == [inner |-> p_inner, leftover |-> p_leftover, bits_read |-> p_bits_read]

\* Container::new over a source that yields the bytes of input
ContainerNew ==
    /\ r_inner = input
    /\ r_leftover = <<>>
    /\ bits_read = 0
    /\ r_op = "new" /\ r_amt = 0 /\ r_buflen = 0
    /\ r_ret = Ret("Unit", <<>>, <<>>, 0)
    /\ r_src = "none"
    /\ r_prev_end_true = FALSE
    /\ r_out = <<>>
    /\ r_ok = TRUE
    /\ p_inner = input
    /\ p_leftover = <<>>
    /\ p_bits_read = 0
    /\ p_ret = Ret("Unit", <<>>, <<>>, 0)

\* Writer::new
WriterNew ==
    /\ w_inner = <<>>
    /\ w_leftover = <<>>
    /\ bits_written = 0
    /\ w_op = "new" /\ w_ret = "Ok"
    /\ w_bits = <<>>
    /\ w_calls = 0 /\ w_nfinal = 0

\* a fresh Container over any input, beside a fresh Writer
InitReader ==
    /\ input \in SeqsOf(ByteVals, 0, MaxInputLen)
    /\ r_faulty = FALSE
    /\ ContainerNew
    /\ WriterNew

\* a fresh Writer, beside a Container over no input
InitWriter ==
    /\ input = <<>>
    /\ r_faulty = FALSE
    /\ ContainerNew
    /\ WriterNew

\* the Container after a call with outcome o
RStep(op, amt, buflen, o) ==
    /\ r_inner' = o.inner
    /\ r_leftover' = o.leftover
    /\ bits_read' = o.bits_read
    /\ r_op' = op /\ r_amt' = amt /\ r_buflen' = buflen
    /\ r_ret' = o.ret
    /\ r_src' = o.src
    /\ r_prev_end_true' = (r_op = "end" /\ r_ret.kind = "true")
    /\ r_out' = r_out \o o.taken
    /\ r_ok' = (r_ok /\ o.ret.kind # "Incomplete")
    /\ r_faulty' = (r_faulty /\ o.src # "ioerr")
    /\ UNCHANGED input

\* a call on the Container alone
RApply(op, amt, buflen, o) ==
    /\ RStep(op, amt, buflen, o)
    /\ UNCHANGED pvars

\* the Writer after a call with outcome o, bits being what the caller supplied
WApply(op, bits, o) ==
    /\ w_inner' = o.inner
    /\ w_leftover' = o.leftover
    /\ bits_written' = o.bits_written
    /\ w_op' = op /\ w_ret' = o.ret
    /\ w_bits' = w_bits \o bits
    /\ w_calls' = w_calls + 1
    /\ w_nfinal' = w_nfinal + (IF op = "finalize" THEN 1 ELSE 0)

(***************************************************************************)
(* Container calls.  A caller discards the Container once a call has       *)
(* failed.                                                                 *)
(***************************************************************************)
\* lengths of the caller's buffer tried with read_bytes(amt, buf)
BufLens(amt) == {n \in {amt - 1, amt, amt + 1} : n >= 0}

End ==
    /\ r_ok
    /\ \E o \in end(RS, r_faulty) : RApply("end", 0, 0, o)
    /\ UNCHANGED wvars

SkipBits ==
    /\ r_ok
    /\ \E amt \in 0..MaxSkip :
         /\ amt <= MAX_BITS_AMT
         /\ \E o \in skip_bits(RS, amt, r_faulty) : RApply("skip_bits", amt, 0, o)
    /\ UNCHANGED wvars

ReadBits ==
    /\ r_ok
    /\ \E amt \in 0..MaxAmt :
         /\ amt <= MAX_BITS_AMT
         /\ \E o \in read_bits(RS, amt, r_faulty) : RApply("read_bits", amt, 0, o)
    /\ UNCHANGED wvars

ReadBytes ==
    /\ r_ok
    /\ \E amt \in 0..MaxBytes :
         /\ amt * 8 <= MAX_BITS_AMT
         /\ \E buflen \in BufLens(amt) :
              \E o \in read_bytes(RS, amt, buflen, r_faulty) :
                 RApply("read_bytes", amt, buflen, o)
    /\ UNCHANGED wvars

NextReader == End \/ SkipBits \/ ReadBits \/ ReadBytes

SpecReader == InitReader /\ [][NextReader]_vars

\* a fresh Container over a source that can also fail with an I/O error
\* other than end-of-stream
InitFaulty ==
    /\ input \in SeqsOf(ByteVals, 0, MaxFaultyInputLen)
    /\ r_faulty = TRUE
    /\ ContainerNew
    /\ WriterNew

SpecFaulty == InitFaulty /\ [][NextReader]_vars

(***************************************************************************)
(* Two Containers over the same input: both are given the same read_bits   *)
(* calls, and the first is also asked end() between them.  Calls go on     *)
(* after one has failed.  What a read_exact that hits end-of-stream has    *)
(* consumed is the source's choice, the same for both Containers.          *)
(***************************************************************************)
\* outcome o of a call on a Container whose source held src agrees with a
\* source that, on end-of-stream, has consumed all it had (eats) or nothing
EofPolicy(o, src, eats) ==
    o.src = "eof" => o.inner = (IF eats THEN <<>> ELSE src)

EndInserted ==
    /\ \E o \in end(RS, r_faulty) : RApply("end", 0, 0, o)
    /\ UNCHANGED wvars

ReadBitsBoth ==
    /\ \E amt \in 0..MaxAmt, eats \in BOOLEAN :
         /\ amt <= MAX_BITS_AMT
         /\ \E o \in read_bits(RS, amt, r_faulty), q \in read_bits(PS, amt, r_faulty) :
              /\ EofPolicy(o, r_inner, eats)
              /\ EofPolicy(q, p_inner, eats)
              /\ RStep("read_bits", amt, 0, o)
              /\ p_inner' = q.inner
              /\ p_leftover' = q.leftover
              /\ p_bits_read' = q.bits_read
              /\ p_ret' = q.ret
    /\ UNCHANGED wvars

NextWithEnd == EndInserted \/ ReadBitsBoth

SpecWithEnd == InitReader /\ [][NextWithEnd]_vars

(***************************************************************************)
(* Writer calls.  A caller stops using the Writer once a call has failed.  *)
(***************************************************************************)
\* bit-vectors handed to write_bits
BitChunks ==
    {<<>>, <<1>>, <<0, 1>>, <<1, 0, 1>>, <<1, 1, 0, 1>>, <<0, 0, 0, 1, 1, 0, 1>>,
     FromSlice(<<170>>), FromSlice(<<27, 170>>)}

\* buffers handed to write_bytes
ByteBufs == {<<>>, <<170>>, <<27>>, <<27, 170>>}

WriterLive == w_ret = "Ok" /\ w_calls < MaxCalls

WriteBits ==
    /\ WriterLive
    /\ \E bits \in BitChunks : \E o \in write_bits(WS, bits) : WApply("write_bits", bits, o)
    /\ UNCHANGED rvars

WriteBytes ==
    /\ WriterLive
    /\ \E buf \in ByteBufs : \E o \in write_bytes(WS, buf) :
         WApply("write_bytes", FromSlice(buf), o)
    /\ UNCHANGED rvars

Finalize ==
    /\ WriterLive
    /\ \E o \in finalize(WS) : WApply("finalize", <<>>, o)
    /\ UNCHANGED rvars

NextWriter == WriteBits \/ WriteBytes \/ Finalize

SpecWriter == InitWriter /\ [][NextWriter]_vars

(***************************************************************************)
(* Round trip: every bit-vector read_bits returns is handed to write_bits  *)
(* of a fresh Writer, which is then finalized.                             *)
(***************************************************************************)
Copy ==
    /\ r_ok /\ w_ret = "Ok" /\ w_nfinal = 0
    /\ \E amt \in 1..MaxAmt :
         /\ amt <= MAX_BITS_AMT
         /\ \E o \in read_bits(RS, amt, r_faulty) :
              /\ RApply("read_bits", amt, 0, o)
              /\ IF o.ret.kind = "Some"
                   THEN \E w \in write_bits(WS, o.ret.val) :
                          WApply("write_bits", o.ret.val, w)
                   ELSE UNCHANGED wvars

CopyFinalize ==
    /\ r_ok /\ w_ret = "Ok" /\ w_nfinal = 0
    /\ \E o \in finalize(WS) : WApply("finalize", <<>>, o)
    /\ UNCHANGED rvars

NextRoundTrip == Copy \/ CopyFinalize

SpecRoundTrip == InitReader /\ [][NextRoundTrip]_vars

(***************************************************************************)
(* Properties.                                                             *)
(***************************************************************************)
\* the MSB-first bit expansion of the whole input
InputBits == FromSlice(input)

\* zero bits that pad n bits to the next byte boundary
PadLen(n) == (8 - (n % 8)) % 8

\* the last Writer call was the first finalize, and no call failed
FinalizedOnce == w_op = "finalize" /\ w_ret = "Ok" /\ w_nfinal = 1

\* C1: after successful write_bits / write_bytes calls on a fresh Writer and
\* then finalize(), the sink holds the MSB-first packing of all the bits
\* written, right-padded with zero bits to the next byte boundary (and no
\* padding byte when the total is a multiple of 8).
C1_FinalizePacksAllBits ==
    FinalizedOnce =>
        /\ \A i \in 1..Len(w_inner) : w_inner[i] \in 0..255
        /\ FromSlice(w_inner) = w_bits \o Zeros(PadLen(Len(w_bits)))

\* C1 witness: three writes that flushed bytes and left a partial byte, then
\* finalize
C1_Witness ==
    /\ FinalizedOnce
    /\ w_calls = 4
    /\ Len(w_bits) % 8 = 3
    /\ Len(w_inner) = 3

\* the last Container call was a successful read_bits(amt >= 1)
ReadBitsReturned == r_op = "read_bits" /\ r_ret.kind = "Some"

\* C2: over any input, after successful calls every read_bits(n) result has
\* exactly n bits and the results, concatenated in call order, are the first
\* bits of the MSB-first expansion of the input.
C2_ReadBitsYieldInputPrefix ==
    r_ok =>
        /\ Len(r_out) <= Len(InputBits)
        /\ r_out = SubSeq(InputBits, 1, Len(r_out))
        /\ ReadBitsReturned =>
              /\ Len(r_ret.val) = r_amt
              /\ r_amt <= Len(r_out)
              /\ r_ret.val = Tail0(r_out, Len(r_out) - r_amt)

\* C2 witness: a read_bits(10) on one buffered bit, which reads two more
\* bytes and leaves seven bits buffered
C2_Witness ==
    /\ r_ok /\ ReadBitsReturned
    /\ r_amt = 10
    /\ Len(r_out) = 17
    /\ Len(r_leftover) = 7

\* C3: when the read_bits results that partition all 8*|B| bits of a
\* non-empty input B have each been written with write_bits and finalize()
\* has been called, the sink holds exactly B.
C3_RoundTrip ==
    (/\ input # <<>>
     /\ r_ok
     /\ Len(r_out) = 8 * Len(input)
     /\ FinalizedOnce)
        => w_inner = input

\* C3 witness: a three-byte input copied in four or more parts, the last
\* ending inside no byte
C3_Witness ==
    /\ Len(input) = 3
    /\ input[1] # input[2]
    /\ r_ok
    /\ Len(r_out) = 24
    /\ FinalizedOnce
    /\ w_calls >= 5
    /\ r_amt = 7

\* C4: after finalize() has returned successfully the Writer's leftover
\* buffer (what rest() returns) is empty and the sink holds whole bytes,
\* whatever writes preceded it.  The code does not satisfy this.
C4_FinalizeLeavesLeftoverEmpty ==
    (w_op = "finalize" /\ w_ret = "Ok") =>
        /\ rest(WS) = <<>>
        /\ \A i \in 1..Len(w_inner) : w_inner[i] \in 0..255

\* C5: after any successful call of either adapter the leftover buffer
\* holds fewer than 8 bits.  The code does not satisfy this.
C5_LeftoverBelowEight ==
    /\ r_ok => Len(r_leftover) < 8
    /\ w_ret = "Ok" => Len(w_leftover) < 8

\* C6: over a source that fails only with end-of-stream, after successful
\* calls end() returns true exactly when every bit of the input has been
\* handed to the caller, that is when nothing is buffered and the source is
\* exhausted; with bits still buffered it returns false.
C6_EndIffAllBitsReturned ==
    (r_ok /\ r_op = "end") =>
        /\ r_ret.kind \in {"true", "false"}
        /\ r_ret.kind = "true" <=> r_out = InputBits
        /\ r_ret.kind = "true" <=> (r_leftover = <<>> /\ r_inner = <<>>)

\* C6 witness: end() answered false on an exhausted source with part of the
\* last byte still buffered
C6_Witness ==
    /\ r_ok /\ r_op = "end"
    /\ r_ret.kind = "false"
    /\ r_inner = <<>>
    /\ Len(r_leftover) \in 1..7
    /\ Len(r_out) > 8

\* C7: when end() has returned true, a read_bits(n) with n >= 1 that
\* follows it directly fails with Incomplete carrying n and returns no bits.
C7_ReadAfterEndIsIncomplete ==
    (r_prev_end_true /\ r_op = "read_bits" /\ r_amt >= 1) =>
        /\ r_ret = Ret("Incomplete", <<>>, <<>>, r_amt)
        /\ ~r_ok

\* C7 witness: a read_bits(3) made right after end() returned true on a
\* consumed three-byte input
C7_Witness ==
    /\ r_prev_end_true
    /\ r_op = "read_bits"
    /\ r_amt = 3
    /\ Len(input) = 3
    /\ r_out = InputBits

\* the bits the Container has still to hand out: the buffered ones, then
\* the expansion of what the source has left
Remaining == r_leftover \o FromSlice(r_inner)

\* this step is a successful read_bits(n) / read_bytes(n) and adds exactly
\* n / 8n to bits_read
ReadsCountExactly ==
    /\ (r_op' = "read_bits" /\ r_ret'.kind = "Some")
          => bits_read' = bits_read + r_amt'
    /\ (r_op' = "read_bytes" /\ r_ret'.kind \in {"Bytes", "BitsSome", "BitsNone"})
          => bits_read' = bits_read + 8 * r_amt'

\* C8 as stated: bits_read never decreases over the Container's lifetime,
\* and each successful read_bits(n) adds n, each successful read_bytes(n)
\* adds 8n.  A skip_bits after a read violates the first part.
C8_CounterNeverDecreases ==
    [][bits_read' >= bits_read /\ ReadsCountExactly]_vars

\* C8 amended: bits_read never decreases across end, read_bits and
\* read_bytes calls, a successful skip_bits sets it to 0 (a decrease when it
\* was positive), and each successful read_bits(n) adds exactly n, each
\* successful read_bytes(n) exactly 8n, on the byte-aligned path and on the
\* delegated bit path.
C8_CounterPerCall ==
    [][/\ r_op' # "skip_bits" => bits_read' >= bits_read
       /\ (r_op' = "skip_bits" /\ r_ret'.kind = "Unit") => bits_read' = 0
       /\ (r_op' = "skip_bits" /\ r_ret'.kind # "Unit") => bits_read' = bits_read
       /\ ReadsCountExactly]_vars

\* C8 witness: a read_bytes(1) on the delegated bit path (four bits were
\* buffered) that took bits_read from 4 to 12
C8_Witness ==
    /\ r_ok
    /\ r_op = "read_bytes" /\ r_ret.kind = "BitsSome" /\ r_amt = 1
    /\ Len(r_leftover) = 4
    /\ Len(r_out) = 12
    /\ bits_read = 12

\* C9: a skip_bits(m) succeeds exactly when m bits remain; it then takes
\* exactly the next m bits out of the stream (what follows is handed out from
\* m positions later, the rest of a partly used byte staying buffered) and
\* leaves bits_read at 0 whatever it was; otherwise it fails with
\* Incomplete(m).
C9_SkipBits ==
    [][r_op' = "skip_bits" =>
          IF r_amt' <= Len(Remaining)
            THEN /\ r_ret' = Ret("Unit", <<>>, <<>>, 0)
                 /\ bits_read' = 0
                 /\ r_out' = r_out \o SubSeq(Remaining, 1, r_amt')
                 /\ Remaining' = Tail0(Remaining, r_amt')
                 /\ r_amt' >= 1 => Len(r_leftover') < 8
            ELSE r_ret' = Ret("Incomplete", <<>>, <<>>, r_amt')]_vars

\* C9 witness: a skip_bits(3) after seven bits were handed out, which read
\* one more byte and left six bits of it buffered, bits_read back at 0
C9_Witness ==
    /\ r_ok
    /\ r_op = "skip_bits" /\ r_amt = 3
    /\ Len(r_out) = 10
    /\ Len(r_leftover) = 6
    /\ bits_read = 0

\* what a successful read_bytes(n) returns on the byte-aligned path, and the
\* path taken
ReadBytesPaths ==
    (r_op' = "read_bytes" /\ r_ret'.kind # "Incomplete") =>
        /\ r_ret'.kind = "Bytes" <=> r_leftover = <<>>
        /\ r_ret'.kind = "Bytes" =>
              /\ Len(r_ret'.buf) = r_amt'
              /\ r_ret'.buf = SubSeq(r_inner, 1, r_amt')
        /\ r_ret'.kind # "Bytes" => r_ret'.kind \in {"BitsSome", "BitsNone"}
        /\ (r_op = "end" /\ r_ret.kind = "false") => r_ret'.kind # "Bytes"

\* the Bits tag of this step carries exactly the next 8n bits, residue first
BitsTagCarriesBits ==
    /\ r_ret'.kind = "BitsSome"
    /\ Len(r_ret'.val) = 8 * r_amt'
    /\ r_ret'.val = SubSeq(Remaining, 1, 8 * r_amt')

\* C10 as stated: a successful read_bytes(n, buf) returns Bytes with the
\* next n input bytes in buf exactly when leftover was empty, and otherwise
\* Bits carrying a bit-vector of exactly 8n bits, the next 8n bits of the
\* stream; after end() returned false the next read_bytes takes the Bits
\* path.  read_bytes(0, buf) on buffered bits violates it: Bits carries None.
C10_BitsAlwaysCarriesVector ==
    [][/\ ReadBytesPaths
       /\ (r_op' = "read_bytes" /\ r_ret'.kind \notin {"Incomplete", "Bytes"})
             => BitsTagCarriesBits]_vars

\* C10 amended: as stated for n >= 1; for n = 0 with bits buffered the Bits
\* tag carries the absent value (None) and nothing is consumed.
C10_ReadBytesPaths ==
    [][/\ ReadBytesPaths
       /\ (r_op' = "read_bytes" /\ r_ret'.kind \notin {"Incomplete", "Bytes"})
             => IF r_amt' >= 1
                  THEN BitsTagCarriesBits
                  ELSE /\ r_ret' = Ret("BitsNone", <<>>, <<>>, 0)
                       /\ Remaining' = Remaining]_vars

\* C10 witness: the read_bytes(1) that follows an end() = false on a fresh
\* Container returned the Bits tag with the eight look-ahead bits
C10_Witness ==
    /\ r_ok
    /\ r_op = "read_bytes" /\ r_amt = 1
    /\ r_ret.kind = "BitsSome"
    /\ r_out = SubSeq(InputBits, 1, 8)
    /\ r_leftover = <<>>
    /\ r_inner # <<>>

\* this step failed with Incomplete(need), handed out nothing and left
\* bits_read as it was
FailsIncomplete(need) ==
    /\ r_ret' = Ret("Incomplete", <<>>, <<>>, need)
    /\ r_out' = r_out
    /\ bits_read' = bits_read

\* a read_bits(n >= 1) step fails exactly when fewer than n bits remain
\* (buffered plus source), and then with Incomplete(n), no bits, bits_read
\* kept
ReadBitsFailsIffShort ==
    (r_op' = "read_bits" /\ r_amt' >= 1) =>
        IF r_amt' > Len(Remaining)
          THEN FailsIncomplete(r_amt')
          ELSE r_ret'.kind = "Some"

\* a read_bytes(n) step fails exactly when fewer than 8n bits remain, and
\* then with Incomplete(8n), no bits or bytes, bits_read kept
ReadBytesFailsIffShort ==
    IF 8 * r_amt' > Len(Remaining)
      THEN FailsIncomplete(8 * r_amt')
      ELSE r_ret'.kind \in {"Bytes", "BitsSome", "BitsNone"}

C12_SourceErrorsReported ==
    [][(r_op' \in {"read_bits", "read_bytes"} /\ r_src' = "ioerr") =>
          /\ r_ret'.kind \notin {"Some", "None", "Bytes", "BitsSome", "BitsNone"}
          /\ r_ret'.val = <<>> /\ r_ret'.buf = <<>>
          /\ r_out' = r_out
          /\ bits_read' = bits_read]_vars

\* C13: a byte-aligned read_bytes(n, buf) (leftover empty) with buf.len() < n
\* fails with an error that is not Incomplete, leaves the source where it
\* was and leaves bits_read unchanged.  The code fails it with Incomplete.
C13_ShortBufferIsArgumentError ==
    [][(r_op' = "read_bytes" /\ r_leftover = <<>> /\ r_buflen' < r_amt') =>
          /\ ~r_ok'
          /\ r_ret'.kind # "Incomplete"
          /\ r_inner' = r_inner
          /\ bits_read' = bits_read]_vars

\* C14: bits_written is the size in bits of the most recent emission to the
\* sink: a successful write_bits, write_bytes or finalize that appends bytes
\* to the sink sets it to eight times their number, and a call that appends
\* nothing leaves it as it was.  The code does not satisfy this: finalize
\* emits without setting it.
C14_BitsWrittenIsLastEmission ==
    [][w_ret' = "Ok" =>
          IF Len(w_inner') > Len(w_inner)
            THEN bits_written' = 8 * (Len(w_inner') - Len(w_inner))
            ELSE bits_written' = bits_written]_vars

\* bytes the Container has consumed from its source
Consumed == Len(input) - Len(r_inner)

\* after successful calls: the bits returned or skipped plus the buffered
\* ones are exactly the bits of the bytes consumed, the buffered ones being
\* the not-yet-returned tail of the last consumed byte, and the source holds
\* the input from the first unconsumed byte on
ReaderAccounting ==
    r_ok =>
        /\ Len(r_out) + Len(r_leftover) = 8 * Consumed
        /\ r_out \o r_leftover = SubSeq(InputBits, 1, 8 * Consumed)
        /\ Len(r_leftover) <= 8
        /\ r_inner = Tail0(input, Consumed)
        /\ r_leftover = <<>> => r_inner = Tail0(input, Len(r_out) \div 8)

\* the bits the step's call asks for
Requested ==
    CASE r_op' = "read_bytes" -> 8 * r_amt'
      [] r_op' = "end"        -> 1
      [] OTHER                -> r_amt'

\* a successful step advances the source only when the buffered bits do not
\* cover its request; a byte-aligned read_bytes(k) takes exactly k bytes
AdvancesOnlyWhenNeeded ==
    r_ok' =>
        /\ r_inner' # r_inner => Requested > Len(r_leftover)
        /\ (r_op' = "read_bytes" /\ r_ret'.kind = "Bytes") =>
              /\ r_ret'.buf = SubSeq(r_inner, 1, r_amt')
              /\ r_inner' = Tail0(r_inner, r_amt')

\* C15: Reader accounting.  In every state reached by successful end /
\* read_bits / read_bytes / skip_bits calls, bits returned or skipped plus
\* the length of leftover is 8 times the bytes consumed, and leftover is the
\* not-yet-returned tail of the last consumed byte; the source is advanced
\* only when leftover cannot satisfy the request, and after k bytes read by
\* byte-aligned read_bytes the source holds the input from offset k on.
C15_ReaderAccounting ==
    []ReaderAccounting /\ [][AdvancesOnlyWhenNeeded]_vars

\* C15 witness: after a third byte was consumed by a read that left three
\* of its bits buffered, five bits short of the whole input returned
C15_Witness ==
    /\ r_ok /\ r_op \in {"read_bits", "skip_bits"}
    /\ Len(input) = 3 /\ r_inner = <<>>
    /\ Len(r_out) = 21
    /\ Len(r_leftover) = 3
    /\ r_leftover = Tail0(InputBits, 21)

\* C16: read_bits(0) returns None in every Reader state, consumes no byte
\* from the source, and leaves leftover and bits_read unchanged.
C16_ReadZeroBits ==
    [][(r_op' = "read_bits" /\ r_amt' = 0) =>
          /\ r_ret' = Ret("None", <<>>, <<>>, 0)
          /\ r_ok'
          /\ r_inner' = r_inner
          /\ r_leftover' = r_leftover
          /\ bits_read' = bits_read
          /\ r_out' = r_out]_vars

\* C16 witness: a read_bits(0) answered None with three bits buffered, a
\* byte still in the source and bits_read at 5
C16_Witness ==
    /\ r_op = "read_bits" /\ r_amt = 0
    /\ r_ret.kind = "None"
    /\ Len(r_leftover) = 3
    /\ Len(r_inner) = 1
    /\ bits_read = 5

\* the bits the step's call was given
Supplied == Tail0(w_bits', Len(w_bits))

\* before finalize, after successful calls, the sink's bytes expanded
\* MSB-first and followed by leftover are the bits supplied so far, in order
WriterPrefix ==
    (w_ret = "Ok" /\ w_nfinal = 0) => FromSlice(w_inner) \o w_leftover = w_bits

\* a write_bits step whose bits, with the buffered ones, are fewer than 8
\* emits nothing and buffers them
ShortWriteAccumulates ==
    (w_op' = "write_bits" /\ Len(w_leftover) + Len(Supplied) < 8) =>
        /\ w_ret' = "Ok"
        /\ w_inner' = w_inner
        /\ w_leftover' = w_leftover \o Supplied

\* C17: Writer prefix invariant.  After successful write_bits / write_bytes
\* calls on a fresh Writer, finalize not yet called, the MSB-first expansion
\* of the sink's bytes followed by leftover equals all bits supplied so far
\* in call order; and a write_bits whose leftover ++ bits is shorter than 8
\* bits emits nothing.
C17_WriterPrefix ==
    []WriterPrefix /\ [][ShortWriteAccumulates]_vars

\* C17 witness: four writes without finalize that flushed three bytes and
\* left five bits buffered
C17_Witness ==
    /\ w_ret = "Ok" /\ w_nfinal = 0
    /\ w_calls = 4
    /\ Len(w_inner) = 3
    /\ Len(w_leftover) = 5
    /\ Len(w_bits) = 29

\* what a set of Writer outcomes leaves in the sink and in leftover, with
\* the value returned
SinkAndLeftover(outs) == {<<o.inner, o.leftover, o.ret>> : o \in outs}

\* a write_bytes(buf) step from a leftover of 0..7 bits ends as write_bits of
\* buf's bits could have ended from the same state, and the two calls have
\* the same possible ends
WriteBytesAsWriteBits ==
    (w_op' = "write_bytes" /\ Len(w_leftover) <= 7) =>
        /\ <<w_inner', w_leftover', w_ret'>> \in SinkAndLeftover(write_bits(WS, Supplied))
        /\ \A buf \in ByteBufs :
              FromSlice(buf) = Supplied =>
                  SinkAndLeftover(write_bytes(WS, buf))
                      = SinkAndLeftover(write_bits(WS, Supplied))

\* C18: write_bytes(buf) is equivalent to write_bits of the MSB-first
\* expansion of buf: from any Writer state with 0..7 bits in leftover both
\* leave the same bytes in the sink and the same leftover, on the fast path
\* (leftover empty) and on the delegating path (leftover non-empty).
C18_WriteBytesIsWriteBits ==
    [][WriteBytesAsWriteBits]_vars

\* C18 witness: a write_bytes of two bytes on three buffered bits, which
\* flushed two bytes behind an earlier one and left three bits buffered
C18_Witness ==
    /\ w_op = "write_bytes" /\ w_ret = "Ok" /\ w_nfinal = 0
    /\ Len(w_inner) = 3
    /\ Len(w_leftover) = 3
    /\ Tail0(w_bits, Len(w_bits) - 16) = FromSlice(<<27, 170>>)

\* an end() step keeps every buffered bit in place, bits_read and the bits
\* handed out; on buffered bits it answers false and leaves the source; on
\* an empty leftover it takes at most one byte, and a byte read is buffered
\* MSB-first with the answer false
EndFrame ==
    r_op' = "end" =>
        /\ bits_read' = bits_read
        /\ r_out' = r_out
        /\ Len(r_leftover') >= Len(r_leftover)
        /\ SubSeq(r_leftover', 1, Len(r_leftover)) = r_leftover
        /\ r_leftover # <<>> =>
              /\ r_ret'.kind = "false"
              /\ r_inner' = r_inner
              /\ r_leftover' = r_leftover
        /\ r_leftover = <<>> =>
              /\ Len(r_inner) - Len(r_inner') \in {0, 1}
              /\ r_src' = "ok" =>
                    /\ r_inner' = Tail(r_inner)
                    /\ r_leftover' = [i \in 1..8 |-> BitOfByte(r_inner[1], i - 1)]
                    /\ r_ret'.kind = "false"

\* C19: end() never removes bits from leftover and never changes bits_read.
\* With leftover non-empty it returns false and consumes nothing; with
\* leftover empty it consumes at most one byte, and a byte read is stored in
\* leftover as its 8 bits MSB-first with the result false.  leftover can go
\* from empty to non-empty in end(), never from non-empty to empty.
C19_EndFrame ==
    [][EndFrame]_vars

\* C19 witness: an end() after one byte was read, which answered false and
\* buffered the whole second byte, bits_read still 8
C19_Witness ==
    /\ r_op = "end" /\ r_ret.kind = "false" /\ r_src = "ok"
    /\ Len(input) >= 2
    /\ r_leftover = FromSlice(<<input[2]>>)
    /\ r_inner = Tail0(input, 2)
    /\ Len(r_out) = 8
    /\ bits_read = 8

\* this read_bits step gave the Container that is also asked end() what it
\* gave the one that is not: the same bits or the same Incomplete(n), and
\* after a success the same bits_read
SameAsWithoutEnd ==
    /\ r_ret' = p_ret'
    /\ r_ret'.kind # "Incomplete" => bits_read' = p_bits_read'

\* C20 as stated: end() is transparent to bit-level reads.  Over a source
\* failing only with end-of-stream and for any sequence of read_bits calls,
\* with end() calls inserted anywhere every read_bits call has the outcome
\* (the bits, or Incomplete(n)) and, after a success, the bits_read of the
\* run without them.  A read_bits after one that failed violates it.
C20_EndTransparent ==
    [][r_op' = "read_bits" => SameAsWithoutEnd]_vars

\* C20 amended: the same, for every read_bits call up to and including the
\* first one that fails.
C20_EndTransparentUntilFailure ==
    [][(r_op' = "read_bits" /\ r_ok) => SameAsWithoutEnd]_vars

\* C20 witness: after a byte was read from both, end() buffered the last
\* byte in the one Container, and a read_bits(10) then failed in both with
\* Incomplete(10), the byte buffered in the one and not in the other
C20_Witness ==
    /\ r_op = "read_bits" /\ r_amt = 10
    /\ r_ret = Ret("Incomplete", <<>>, <<>>, 10) /\ p_ret = r_ret
    /\ Len(r_leftover) = 8 /\ p_leftover = <<>>
    /\ Len(r_out) = 8
    /\ bits_read = 8 /\ p_bits_read = 8

=============================================================================
